---- MODULE Spec2Model ----
(***************************************************************************)
(* A model of honeybee_radiance.view.View: the validated fields and their  *)
(* setters, the Radiance text codec (to_radiance / from_string /           *)
(* from_dict), resolution fitting (dimension_x_y), the grid split, the     *)
(* rigid transforms (move / rotate) and the view file (to_file).           *)
(*                                                                         *)
(* Conventions.  An optional value is a sequence: <<>> is Python's None    *)
(* and <<x>> is the value x.  Python strings that the code slices          *)
(* (value[-1:]) are sequences of one-character strings.  The error raised  *)
(* by the last call is kept in err ("none" when it returned normally).     *)
(***************************************************************************)
EXTENDS Integers, Sequences, FiniteSets, TLC

VARIABLES
    view,    \* the View object the calls are made on (self)
    pre,     \* the fields of self before the last call
    op,      \* the last call: [name |-> method, args |-> <<arguments>>]
    err,     \* the exception the last call raised, "none" if it returned
    text,    \* the last to_radiance() result, as its whitespace-split tokens
    parsed,  \* the View returned by the last from_string(), <<>> before
    dims,    \* the (x, y) returned by the last dimension_x_y(), <<>> before
    views,   \* the list returned by the last grid(), <<>> before
    written  \* the file written by the last to_file(), <<>> before

vars == <<view, pre, op, err, text, parsed, dims, views, written>>

----------------------------------------------------------------------------
(* Bounds of the model.                                                    *)

\* sizes above 180 that the inputs reach: 180 + 20 * k for k in 1..MaxOver
MaxOver == 1
\* resolutions asked of dimension_x_y: 1..MaxRes (and None, the default)
MaxRes == 3
\* coordinates of a position: -MaxCoord..MaxCoord
MaxCoord == 1
\* division counts asked of grid: -MaxDiv..MaxDiv
MaxDiv == 3
\* shift and lift values: -MaxOffset..MaxOffset; clip values: 0..MaxOffset
MaxOffset == 1
\* rotation angles: 0..MaxQuarter quarter turns
MaxQuarter == 3

----------------------------------------------------------------------------
(* Values.                                                                 *)

None == <<>>

Some(x) == <<x>>

\* valid_values of the view type option
ValidTypes == {"v", "h", "l", "c", "a", "s"}

\* the tuple tested by is_fisheye and by the type setter
FisheyeTypes == {"h", "a", "s"}

\* the defaults of __init__
DefaultPosition == <<0, 0, 0>>

DefaultDirection == <<0, 0, 1>>

DefaultUpVector == <<0, 1, 0>>

DefaultSize == 60

\* View.__init__: the object after construction.  The constructor builds the
\* option objects directly: it does not go through the type setter, and the
\* clips are created unset.
NewView(name, position, direction, up_vector, type, h_size, v_size, shift, lift) ==
    [name      |-> name,
     position  |-> IF position = None THEN DefaultPosition ELSE position[1],
     direction |-> IF direction = None THEN DefaultDirection ELSE direction[1],
     up_vector |-> IF up_vector = None THEN DefaultUpVector ELSE up_vector[1],
     type      |-> type,
     h_size    |-> h_size,
     v_size    |-> v_size,
     shift     |-> shift,
     lift      |-> lift,
     fore_clip |-> None,
     aft_clip  |-> None]

\* the result of a call on a view: the fields it leaves and what it raised
Outcome(v, e) == [view |-> v, err |-> e]

----------------------------------------------------------------------------
(* The option objects (honeybee_radiance_command.options), as the View     *)
(* uses them.                                                              *)

\* an argument of a numeric setter: a number, None or a non-numeric object
NumArg(n) == [k |-> "num", n |-> n]

NoneArg == [k |-> "none"]

StrArg == [k |-> "str"]

\* NumericOption.value with min_value: a number not below the minimum
NumericValid(arg, hasMin, min) ==
    /\ arg.k = "num"
    /\ hasMin => arg.n >= min

\* value[-1:] of a Python string
LastChar(s) == IF Len(s) = 0 THEN "" ELSE s[Len(s)]

----------------------------------------------------------------------------
(* The setters.                                                            *)

\* h_size.setter: None becomes 60; the option keeps min_value = 0
SetHSize(v, arg) ==
    LET a == IF arg.k = "none" THEN NumArg(DefaultSize) ELSE arg
    IN  IF NumericValid(a, TRUE, 0)
        THEN Outcome([v EXCEPT !.h_size = a.n], "none")
        ELSE Outcome(v, "ValueError")

\* v_size.setter
SetVSize(v, arg) ==
    LET a == IF arg.k = "none" THEN NumArg(DefaultSize) ELSE arg
    IN  IF NumericValid(a, TRUE, 0)
        THEN Outcome([v EXCEPT !.v_size = a.n], "none")
        ELSE Outcome(v, "ValueError")

\* a type setter that leaves the sizes of a fisheye view alone
SetTypeMutNoForce(v, value) ==
    IF value = None THEN Outcome(v, "TypeError")
    ELSE IF LastChar(value[1]) \notin ValidTypes THEN Outcome(v, "ValueError")
    ELSE LET t == LastChar(value[1])
             v1 == [v EXCEPT !.type = t]
         IN  IF t = "v" /\ ~(v1.h_size < 180 /\ v1.v_size < 180)
             THEN Outcome(v1, "AssertionError")
             ELSE Outcome(v1, "none")

\* type.setter: the last character of the value is committed to the option
\* first (the option rejects a character outside valid_values); then a
\* fisheye type forces both sizes to 180 through their setters, and a
\* perspective type asserts both sizes below 180.
SetType(v, value) ==
    IF value = None THEN Outcome(v, "TypeError")
    ELSE IF LastChar(value[1]) \notin ValidTypes THEN Outcome(v, "ValueError")
    ELSE LET t  == LastChar(value[1])
             v1 == [v EXCEPT !.type = t]
             v2 == IF v1.h_size # 180 THEN SetHSize(v1, NumArg(180)).view ELSE v1
             v3 == IF v2.v_size # 180 THEN SetVSize(v2, NumArg(180)).view ELSE v2
         IN  IF t \in FisheyeTypes THEN Outcome(v3, "none")
             ELSE IF t = "v"
             THEN IF ~(v1.h_size < 180) THEN Outcome(v1, "AssertionError")
                  ELSE IF ~(v1.v_size < 180) THEN Outcome(v1, "AssertionError")
                  ELSE Outcome(v1, "none")
             ELSE Outcome(v1, "none")

\* shift.setter, lift.setter, fore_clip.setter, aft_clip.setter: a numeric
\* option without a minimum; None unsets it
SetOptional(v, field, arg) ==
    IF arg.k = "none" THEN Outcome([v EXCEPT ![field] = None], "none")
    ELSE IF NumericValid(arg, FALSE, 0)
    THEN Outcome([v EXCEPT ![field] = Some(arg.n)], "none")
    ELSE Outcome(v, "ValueError")

----------------------------------------------------------------------------
(* The text codec.  A Radiance string is modelled by its tokens, the       *)
(* result of str.split(): flags such as "-vp" and "-vtv", and decimal      *)
(* numerals such as "60" and "-1".                                         *)

\* the numbers the model formats and parses
Numbers == (0 - (MaxCoord + MaxOffset + 1))..(180 + 20 * MaxOver)

\* the numeral of a number, as '%s' % value writes it
FormatNum(n) == ToString(n)

\* float(token): the number a numeral denotes
ParseNum(tok) == CHOOSE n \in Numbers : ToString(n) = tok

\* the option names the parser can meet in a view string
OptNames == {"vp", "vd", "vu", "vh", "vv", "vs", "vl", "vo", "va"}
                \cup {"vt" \o t : t \in ValidTypes}

\* a token of the form -<letters>
IsFlag(tok) == \E n \in OptNames : tok = "-" \o n

\* the flag without its dash
OptName(tok) == CHOOSE n \in OptNames : tok = "-" \o n

\* StringOptionJoined.to_radiance: flag and value joined
JoinedToRadiance(flag, value) == <<"-" \o flag \o value>>

\* TupleOption.to_radiance: the flag and the three numerals, nothing if unset
TupleToRadiance(flag, value) ==
    IF value = None THEN <<>>
    ELSE <<"-" \o flag, FormatNum(value[1][1]), FormatNum(value[1][2]),
           FormatNum(value[1][3])>>

\* NumericOption.to_radiance: the flag and the numeral, nothing if unset
NumericToRadiance(flag, value) ==
    IF value = None THEN <<>> ELSE <<"-" \o flag, FormatNum(value[1])>>

\* to_radiance with the shift and the lift exchanged
ToRadianceMutSwapped(v) ==
    JoinedToRadiance("vt", v.type)
        \o TupleToRadiance("vp", Some(v.position))
        \o TupleToRadiance("vd", Some(v.direction))
        \o TupleToRadiance("vu", Some(v.up_vector))
        \o NumericToRadiance("vh", Some(v.h_size))
        \o NumericToRadiance("vv", Some(v.v_size))
        \o NumericToRadiance("vl", v.lift)
        \o NumericToRadiance("vs", v.shift)
        \o NumericToRadiance("vo", v.fore_clip)
        \o NumericToRadiance("va", v.aft_clip)

\* to_radiance: the ten options joined in this order, white space collapsed
ToRadiance(v) ==
    JoinedToRadiance("vt", v.type)
        \o TupleToRadiance("vp", Some(v.position))
        \o TupleToRadiance("vd", Some(v.direction))
        \o TupleToRadiance("vu", Some(v.up_vector))
        \o NumericToRadiance("vh", Some(v.h_size))
        \o NumericToRadiance("vv", Some(v.v_size))
        \o NumericToRadiance("vs", v.shift)
        \o NumericToRadiance("vl", v.lift)
        \o NumericToRadiance("vo", v.fore_clip)
        \o NumericToRadiance("va", v.aft_clip)

\* the index of the first flag of toks at or after i, Len(toks) + 1 if none
RECURSIVE NextFlag(_, _)
NextFlag(toks, i) ==
    IF i > Len(toks) THEN i
    ELSE IF IsFlag(toks[i]) THEN i
    ELSE NextFlag(toks, i + 1)

\* parser.parse_radiance_options: the options of a string in their order,
\* each with the tokens that follow its flag
RECURSIVE ParseRadianceOptions(_, _)
ParseRadianceOptions(toks, i) ==
    LET k == NextFlag(toks, i)
        e == NextFlag(toks, k + 1)
    IN  IF k > Len(toks) THEN <<>>
        ELSE <<[opt |-> OptName(toks[k]), value |-> SubSeq(toks, k + 1, e - 1)]>>
                 \o ParseRadianceOptions(toks, e)

\* the mapper of from_string: option name to dictionary key
Mapper ==
    [vp |-> "position", vd |-> "direction", vu |-> "up_vector", vh |-> "h_size",
     vv |-> "v_size", vs |-> "shift", vl |-> "lift", vo |-> "fore_clip",
     va |-> "aft_clip"]

\* the base dictionary of from_string
BaseDict(name) ==
    [name |-> Some(name), position |-> None, direction |-> None,
     up_vector |-> None, h_size |-> None, v_size |-> None, shift |-> None,
     lift |-> None, type |-> None, fore_clip |-> None, aft_clip |-> None]

\* the loop of from_string over the parsed options
RECURSIVE FillDict(_, _, _)
FillDict(base, options, i) ==
    IF i > Len(options) THEN base
    ELSE LET o == options[i]
         IN  IF o.opt \in DOMAIN Mapper
             THEN FillDict([base EXCEPT ![Mapper[o.opt]] = Some(o.value)], options, i + 1)
             ELSE FillDict([base EXCEPT !.type = Some(o.opt)], options, i + 1)

\* the value of a tuple option given the numerals of a parsed string
TupleValue(x) ==
    IF x = None THEN None
    ELSE Some(<<ParseNum(x[1][1]), ParseNum(x[1][2]), ParseNum(x[1][3])>>)

\* the value of a numeric option given the numeral of a parsed string
NumericValue(x) == IF x = None THEN None ELSE Some(ParseNum(x[1][1]))

\* from_dict: the constructor is called with the name, the three vectors,
\* the sizes, the shift and the lift of the dictionary (its 'type' key is
\* not passed, so the type is the constructor's default); then the two clips
\* are set
FromDict(d) ==
    LET h == NumericValue(d.h_size)
        w == NumericValue(d.v_size)
        v == NewView(d.name[1], TupleValue(d.position), TupleValue(d.direction),
                     TupleValue(d.up_vector), "v",
                     IF h = None THEN None ELSE h[1],
                     IF w = None THEN None ELSE w[1],
                     NumericValue(d.shift), NumericValue(d.lift))
    IN  [v EXCEPT !.fore_clip = NumericValue(d.fore_clip),
                  !.aft_clip = NumericValue(d.aft_clip)]

\* from_string
FromString(name, toks) ==
    FromDict(FillDict(BaseDict(name), ParseRadianceOptions(toks, 1), 1))

----------------------------------------------------------------------------
(* The view file.  A path is the sequence of its components, as            *)
(* os.path.join puts them together.                                        *)

\* a Python string tests true
Truthy(str) == str # None /\ str[1] # ""

\* futil.write_to_file_by_name: the data written to folder/name; the folder
\* must exist unless mkdir asks for it to be created
WriteToFileByName(folder, exists, name, content, mkdir) ==
    IF exists \/ mkdir
    THEN [file |-> Some([path |-> <<folder, name>>, content |-> content]),
          err |-> "none"]
    ELSE [file |-> None, err |-> "ValueError"]

\* to_file: name = file_name or self.name + '.vf' (the extension is joined
\* to self.name before "or" chooses), content = 'rvu ' + to_radiance()
ToFile(v, folder, exists, file_name, mkdir) ==
    LET name    == IF Truthy(file_name) THEN file_name[1] ELSE v.name \o ".vf"
        content == <<"rvu">> \o ToRadiance(v)
    IN  WriteToFileByName(folder, exists, name, content, mkdir)

----------------------------------------------------------------------------
(* Resolution fitting.  The code computes in floating point; the model     *)
(* computes with exact fractions n / d, the tangents taken from a table in *)
(* units of 1/100000.  round() is Python 2's (half away from zero) or Python 3's *)
(* (half to even), whichever interpreter runs the code.                    *)

\* the default resolution of dimension_x_y
DefaultRes == 512

\* 100000 * tan(radians(deg) / 2) for the sizes of the model
TanHalf(deg) ==
    CASE deg = 0 -> 0
      [] deg = 60 -> 57735
      [] deg = 90 -> 100000
      [] deg = 120 -> 173205
      [] deg = 200 -> 0 - 567128
      [] deg = 220 -> 0 - 274748
      [] deg = 240 -> 0 - 173205

\* the floor of p / q for q > 0
FloorDiv(p, q) == IF p >= 0 THEN p \div q ELSE 0 - (((0 - p) + q - 1) \div q)

\* int(round(p / q)) for q # 0
Round(mode, p, q) ==
    LET pp == IF q < 0 THEN 0 - p ELSE p
        qq == IF q < 0 THEN 0 - q ELSE q
        f  == FloorDiv(pp, qq)
        r2 == 2 * (pp - f * qq)
    IN  IF r2 < qq THEN f
        ELSE IF r2 > qq THEN f + 1
        ELSE IF mode = "py2" THEN (IF pp >= 0 THEN f + 1 ELSE f)
        ELSE IF f % 2 = 0 THEN f ELSE f + 1

\* what dimension_x_y returns: the pair, or the error it raised
Fit(x, y) == [dims |-> Some(<<x, y>>), err |-> "none"]

FitError(e) == [dims |-> None, err |-> e]

\* dimension_x_y without the second attempt
DimensionXYMutNoFallback(v, x_arg, y_arg, mode) ==
    LET x_res == IF x_arg = None THEN DefaultRes ELSE x_arg[1]
        y_res == IF y_arg = None THEN DefaultRes ELSE y_arg[1]
        m     == IF x_res < y_res THEN x_res ELSE y_res
        n     == IF v.type = "v" THEN TanHalf(v.h_size) ELSE v.h_size
        d     == IF v.type = "v" THEN TanHalf(v.v_size) ELSE v.v_size
    IN  IF v.type \in FisheyeTypes THEN Fit(m, m)
        ELSE IF d = 0 THEN FitError("ZeroDivisionError")
        ELSE IF y_res <= x_res THEN Fit(Round(mode, n * y_res, d), y_res)
        ELSE IF n = 0 THEN FitError("ZeroDivisionError")
        ELSE Fit(x_res, Round(mode, x_res * d, n))

\* dimension_x_y: a fisheye view is square; otherwise the ratio hv_ratio =
\* n / d is the ratio of the half-angle tangents (perspective) or of the
\* sizes, the side along the smaller resolution is kept and the other one
\* scaled, and if that does not fit the roles are exchanged
DimensionXY(v, x_arg, y_arg, mode) ==
    LET x_res == IF x_arg = None THEN DefaultRes ELSE x_arg[1]
        y_res == IF y_arg = None THEN DefaultRes ELSE y_arg[1]
        m     == IF x_res < y_res THEN x_res ELSE y_res
        n     == IF v.type = "v" THEN TanHalf(v.h_size) ELSE v.h_size
        d     == IF v.type = "v" THEN TanHalf(v.v_size) ELSE v.v_size
    IN  IF v.type \in FisheyeTypes THEN Fit(m, m)
        ELSE IF d = 0 THEN FitError("ZeroDivisionError")
        ELSE IF y_res <= x_res
        THEN IF Round(mode, n * y_res, d) <= x_res
             THEN Fit(Round(mode, n * y_res, d), y_res)
             ELSE IF n = 0 THEN FitError("ZeroDivisionError")
             ELSE Fit(x_res, Round(mode, x_res * d, n))
        ELSE IF n = 0 THEN FitError("ZeroDivisionError")
        ELSE IF Round(mode, x_res * d, n) <= y_res
             THEN Fit(x_res, Round(mode, x_res * d, n))
             ELSE Fit(Round(mode, n * y_res, d), y_res)

----------------------------------------------------------------------------
(* The grid split.  The sizes of the sub-views are trigonometric            *)
(* expressions of the parent's sizes: the model keeps them as terms.  A     *)
(* shift or lift of a sub-view is a multiple of one half: Half(k) is k / 2. *)

Div(a, b) == <<"div", a, b>>

\* (PI / 180. / 2.) * a
HalfRad(a) == <<"halfrad", a>>

\* (2. * 180. / PI) * a
Deg(a) == <<"deg", a>>

Tan(a) == <<"tan", a>>

Atan(a) == <<"atan", a>>

Sin(a) == <<"sin", a>>

Asin(a) == <<"asin", a>>

Half(k) == <<"half", k>>

\* abs(count): a TypeError for what is not a number
Abs(n) == IF n < 0 THEN 0 - n ELSE n

\* what grid returns: the list of views, or the error it raised.  An entry
\* of the list is self itself or a new object.
Self(v) == [self |-> TRUE, view |-> v]

Fresh(v) == [self |-> FALSE, view |-> v]

\* '%s_%d' % (self.name, view_count)
SubName(name, i) == name \o "_" \o ToString(i)

\* the view built by one round of the loop of grid: a View constructed with
\* the name alone, then its h_size, v_size, shift and lift set
SubView(v, i, x, y, vh, vv) ==
    LET vs == IF x = 1 THEN Half(0) ELSE Half(2 * (i % x) - (x - 1))
        vl == IF y = 1 THEN Half(0) ELSE Half(2 * (i \div y) - (y - 1))
        n  == NewView(SubName(v.name, i), None, None, None, "v",
                      DefaultSize, DefaultSize, None, None)
    IN  [n EXCEPT !.h_size = vh, !.v_size = vv,
                  !.shift = Some(vs), !.lift = Some(vl)]

\* the sub-view sizes by type: parallel, perspective, fisheye
GridHSize(v, x) ==
    IF v.type = "l" THEN Div(v.h_size, x)
    ELSE IF v.type = "v" THEN Deg(Atan(Div(HalfRad(v.h_size), x)))
    ELSE Deg(Asin(Div(Sin(HalfRad(v.h_size)), x)))

GridVSize(v, y) ==
    IF v.type = "l" THEN Div(v.v_size, y)
    ELSE IF v.type = "v" THEN Deg(Atan(Div(Tan(HalfRad(v.v_size)), y)))
    ELSE Deg(Asin(Div(Sin(HalfRad(v.v_size)), y)))

\* the computed vertical size is negative: the tangent of a half angle
\* between 90 and 180 degrees; the size option (min_value = 0) rejects it
NegativeVSize(v) == v.type = "v" /\ v.v_size > 180 /\ v.v_size < 360

\* grid without the return of self for one by one
GridMutNoShortcut(v, x_arg, y_arg) ==
    IF x_arg.k # "num" \/ y_arg.k # "num" THEN [views |-> <<>>, err |-> "ValueError"]
    ELSE LET x == Abs(x_arg.n)
             y == Abs(y_arg.n)
         IN  IF x * y = 0 THEN [views |-> <<>>, err |-> "AssertionError"]
             ELSE IF v.type = "c" THEN [views |-> <<Self(v)>>, err |-> "none"]
             ELSE IF NegativeVSize(v) THEN [views |-> <<>>, err |-> "ValueError"]
             ELSE [views |-> [i \in 1..(x * y) |->
                                 Fresh(SubView(v, i - 1, x, y,
                                               GridHSize(v, x), GridVSize(v, y)))],
                   err |-> "none"]

\* grid: the counts by absolute value; their product must not be 0; one by
\* one returns [self]; a type other than l, v, h, a, s returns [self]; else
\* x * y new views
Grid(v, x_arg, y_arg) ==
    IF x_arg.k # "num" \/ y_arg.k # "num" THEN [views |-> <<>>, err |-> "ValueError"]
    ELSE LET x == Abs(x_arg.n)
             y == Abs(y_arg.n)
         IN  IF x * y = 0 THEN [views |-> <<>>, err |-> "AssertionError"]
             ELSE IF x = 1 /\ y = 1 THEN [views |-> <<Self(v)>>, err |-> "none"]
             ELSE IF v.type = "c" THEN [views |-> <<Self(v)>>, err |-> "none"]
             ELSE IF NegativeVSize(v) THEN [views |-> <<>>, err |-> "ValueError"]
             ELSE [views |-> [i \in 1..(x * y) |->
                                 Fresh(SubView(v, i - 1, x, y,
                                               GridHSize(v, x), GridVSize(v, y)))],
                   err |-> "none"]

----------------------------------------------------------------------------
(* The transforms.  Vectors have integer coordinates; an angle is a number *)
(* of quarter turns q, for q * PI / 2 radians; a rotation axis is a unit   *)
(* vector along a coordinate axis.                                         *)

VAdd(a, b) == <<a[1] + b[1], a[2] + b[2], a[3] + b[3]>>

VSub(a, b) == <<a[1] - b[1], a[2] - b[2], a[3] - b[3]>>

VScale(a, k) == <<a[1] * k, a[2] * k, a[3] * k>>

VDot(a, b) == a[1] * b[1] + a[2] * b[2] + a[3] * b[3]

VCross(a, b) ==
    <<a[2] * b[3] - a[3] * b[2], a[3] * b[1] - a[1] * b[3], a[1] * b[2] - a[2] * b[1]>>

\* cos and sin of q quarter turns
Cos4(q) == CASE q % 4 = 0 -> 1 [] q % 4 = 2 -> 0 - 1 [] OTHER -> 0

Sin4(q) == CASE q % 4 = 1 -> 1 [] q % 4 = 3 -> 0 - 1 [] OTHER -> 0

\* Vector3D.rotate: a rotated by q quarter turns about the unit axis k
VRotate(a, k, q) ==
    VAdd(VAdd(VScale(a, Cos4(q)), VScale(VCross(k, a), Sin4(q))),
         VScale(k, VDot(k, a) * (1 - Cos4(q))))

\* Point3D.rotate: p rotated about the axis k through the point o
PRotate(p, k, q, o) == VAdd(o, VRotate(VSub(p, o), k, q))

\* a move that takes the vector away
MoveMutSubtract(v, vector) ==
    Outcome([v EXCEPT !.position = VSub(v.position, vector)], "none")

\* move: the position moved by the vector
Move(v, vector) ==
    Outcome([v EXCEPT !.position = VAdd(v.position, vector)], "none")

\* rotate: the plane (n = up_vector, o = position, x = direction) is built,
\* then Vector3D(*axis) and Point3D(*position) unpack the arguments (a
\* TypeError for None); "or" replaces a false axis or point by the view's
\* own (zeroIsFalse: whether the library's zero point tests false); the
\* plane is rotated and its o, x, n are written back
Rotate(v, angle, axis, position, zeroIsFalse) ==
    IF axis = None THEN Outcome(v, "TypeError")
    ELSE IF position = None THEN Outcome(v, "TypeError")
    ELSE LET k == axis[1]
             o == IF zeroIsFalse /\ position[1] = <<0, 0, 0>>
                  THEN v.position ELSE position[1]
         IN  Outcome([v EXCEPT !.position  = PRotate(v.position, k, angle, o),
                               !.direction = VRotate(v.direction, k, angle),
                               !.up_vector = VRotate(v.up_vector, k, angle)],
                     "none")

----------------------------------------------------------------------------
(* The state machine.  Every action is one call on self; the result        *)
(* variables hold what the last call returned and are empty otherwise.     *)

\* the state after View(name, ...) was constructed as v
InitWith(v) ==
    /\ view = v
    /\ pre = v
    /\ op = [name |-> "__init__", args |-> <<>>]
    /\ err = "none"
    /\ text = <<>>
    /\ parsed = <<>>
    /\ dims = <<>>
    /\ views = <<>>
    /\ written = <<>>

\* a call named name with arguments args whose outcome on self is o and
\* which returned t, p, d or vs
Returned(name, args, o, t, p, d, vs) ==
    /\ pre' = view
    /\ view' = o.view
    /\ err' = o.err
    /\ op' = [name |-> name, args |-> args]
    /\ text' = t
    /\ parsed' = p
    /\ dims' = d
    /\ views' = vs

\* such a call, which writes no file
Call(name, args, o, t, p, d, vs) ==
    /\ Returned(name, args, o, t, p, d, vs)
    /\ written' = <<>>

\* the sizes the inputs take
SizeValues == {0, 60, 179, 180} \cup {180 + 20 * k : k \in 1..MaxOver}

\* the size a view of the type usually has
TypicalSize(t) == IF t \in FisheyeTypes THEN 180 ELSE DefaultSize

\* the arguments given to a size setter
SizeArgs == {NumArg(n) : n \in SizeValues \cup {0 - 1}} \cup {NoneArg, StrArg}

\* the arguments given to the type setter: 'v', 'vtv', 'x', '' and None
TypeArgs ==
    {Some(<<t>>) : t \in ValidTypes \cup {"x"}}
        \cup {Some(<<"v", "t", t>>) : t \in {"v", "h"}}
        \cup {Some(<<>>), None}

\* the arguments given to the shift and lift setters (offsets to either
\* side) and to the clip setters (distances)
OptionalArgs(field) ==
    {NumArg(n) : n \in IF field \in {"shift", "lift"}
                        THEN (0 - MaxOffset)..MaxOffset
                        ELSE 0..MaxOffset}
        \cup {NoneArg, StrArg}

\* view.type = value
TypeSet ==
    \E value \in TypeArgs :
        Call("type", <<value>>, SetType(view, value), <<>>, <<>>, <<>>, <<>>)

\* view.h_size = arg
HSizeSet ==
    \E arg \in SizeArgs :
        Call("h_size", <<arg>>, SetHSize(view, arg), <<>>, <<>>, <<>>, <<>>)

\* view.v_size = arg
VSizeSet ==
    \E arg \in SizeArgs :
        Call("v_size", <<arg>>, SetVSize(view, arg), <<>>, <<>>, <<>>, <<>>)

\* view.shift = arg, view.lift = arg, view.fore_clip = arg, view.aft_clip = arg
OptionalSet ==
    \E field \in {"shift", "lift", "fore_clip", "aft_clip"} :
      \E arg \in OptionalArgs(field) :
        Call(field, <<arg>>, SetOptional(view, field, arg), <<>>, <<>>, <<>>, <<>>)

\* view.to_radiance()
ToRadianceCall ==
    Call("to_radiance", <<>>, Outcome(view, "none"), ToRadiance(view), <<>>, <<>>, <<>>)

\* View.from_string(view.name, view.to_radiance())
FromStringCall ==
    LET s == ToRadiance(view)
    IN  Call("from_string", <<view.name, s>>, Outcome(view, "none"),
             <<>>, Some(FromString(view.name, s)), <<>>, <<>>)

\* the resolutions asked for
ResArgs == {Some(r) : r \in 1..MaxRes} \cup {None}

\* view.dimension_x_y(x_res, y_res)
DimensionCall ==
    \E x_arg \in ResArgs, y_arg \in ResArgs, mode \in {"py2", "py3"} :
        LET r == DimensionXY(view, x_arg, y_arg, mode)
        IN  Call("dimension_x_y", <<x_arg, y_arg>>, Outcome(view, r.err),
                 <<>>, <<>>, r.dims, <<>>)

\* the counts given to grid: integers of either sign, and a non-number
DivArgs == {NumArg(n) : n \in (0 - MaxDiv)..MaxDiv} \cup {StrArg}

\* view.grid(x_arg, y_arg)
GridCall ==
    \E x_arg \in DivArgs, y_arg \in DivArgs :
        LET r == Grid(view, x_arg, y_arg)
        IN  Call("grid", <<x_arg, y_arg>>, Outcome(view, r.err),
                 <<>>, <<>>, <<>>, r.views)

\* the coordinates of the model
Coords == (0 - MaxCoord)..MaxCoord

InBox(p) == \A i \in 1..3 : p[i] \in Coords

\* the vectors given to move: no move, and one step along each axis
MoveVectors ==
    {<<0, 0, 0>>, <<1, 0, 0>>, <<0 - 1, 0, 0>>, <<0, 1, 0>>, <<0, 0 - 1, 0>>,
     <<0, 0, 1>>, <<0, 0, 0 - 1>>}

\* view.move(vector), as long as the view stays in the box
MoveCall ==
    \E vector \in MoveVectors :
        /\ InBox(Move(view, vector).view.position)
        /\ Call("move", <<vector>>, Move(view, vector), <<>>, <<>>, <<>>, <<>>)

\* the arguments given to rotate
AxisArgs == {None, Some(<<0, 1, 0>>)}

PivotArgs == {None, Some(<<0, 0, 0>>), Some(<<MaxCoord, 0, 0>>)}

\* view.rotate(angle, axis, position), as long as the view stays in the box
RotateCall ==
    \E angle \in 0..MaxQuarter, axis \in AxisArgs, position \in PivotArgs,
       zeroIsFalse \in BOOLEAN :
        LET r == Rotate(view, angle, axis, position, zeroIsFalse)
        IN  /\ InBox(r.view.position)
            /\ Call("rotate", <<angle, axis, position>>, r, <<>>, <<>>, <<>>, <<>>)

\* the file names given to to_file: none, the empty string, a name
FileNameArgs == {None, Some(""), Some("shot")}

\* view.to_file(folder, file_name, mkdir), the folder existing or not
ToFileCall ==
    \E file_name \in FileNameArgs, mkdir \in BOOLEAN, exists \in BOOLEAN :
        LET r == ToFile(view, "folder", exists, file_name, mkdir)
        IN  /\ Returned("to_file", <<"folder", file_name, mkdir>>,
                        Outcome(view, r.err), <<>>, <<>>, <<>>, <<>>)
            /\ written' = r.file

\* the fields and their setters
Init ==
    \E t \in ValidTypes, h \in SizeValues, w \in SizeValues :
        InitWith(NewView("view", None, None, None, t, h, w, None, None))

Next == TypeSet \/ HSizeSet \/ VSizeSet

Spec == Init /\ [][Next]_vars

\* the codec: views of every type, with and without shift, lift and clips
CodecPositions == {<<MaxCoord, 0, 0 - MaxCoord>>}

InitCodec ==
    \E t \in ValidTypes, p \in CodecPositions :
        InitWith(NewView("view", Some(p), None, None, t, TypicalSize(t), TypicalSize(t),
                         None, None))

NextCodec == OptionalSet \/ ToRadianceCall \/ FromStringCall

SpecCodec == InitCodec /\ [][NextCodec]_vars

\* the view file: views of every type, with and without shift and lift
FileOffsets == {None} \cup {Some(n) : n \in (0 - MaxOffset)..MaxOffset}

InitFile ==
    \E t \in ValidTypes, vs \in FileOffsets, vl \in FileOffsets :
        InitWith(NewView("view", None, None, None, t, TypicalSize(t), TypicalSize(t),
                         vs, vl))

NextFile == ToFileCall

SpecFile == InitFile /\ [][NextFile]_vars

\* resolution fitting: views of every type and of sizes below and above 180
FitSizes == {0, 60, 90, 120} \cup {180 + 20 * k : k \in 1..MaxOver}

InitFit ==
    \E t \in ValidTypes, h \in FitSizes, w \in FitSizes :
        InitWith(NewView("view", None, None, None, t, h, w, None, None))

NextFit == DimensionCall

SpecFit == InitFit /\ [][NextFit]_vars

\* the grid split: views of every type, at the default position and
\* orientation and away from them
GridSizes == {60, 180} \cup {180 + 20 * k : k \in 1..MaxOver}

Orientations ==
    {[direction |-> DefaultDirection, up_vector |-> DefaultUpVector],
     [direction |-> <<1, 0, 0>>, up_vector |-> <<0, 0, 1>>]}

Placements ==
    {[position |-> DefaultPosition, direction |-> DefaultDirection,
      up_vector |-> DefaultUpVector],
     [position |-> <<MaxCoord, 0, 0 - MaxCoord>>, direction |-> <<1, 0, 0>>,
      up_vector |-> <<0, 0, 1>>]}

InitGrid ==
    \E t \in ValidTypes, w \in GridSizes, p \in Placements :
        InitWith(NewView("view", Some(p.position), Some(p.direction),
                         Some(p.up_vector), t, TypicalSize(t), w, None, None))

NextGrid == GridCall

SpecGrid == InitGrid /\ [][NextGrid]_vars

\* the transforms: views at every point of the box
InitTransform ==
    \E p \in Coords \X Coords \X Coords, o \in Orientations :
        InitWith(NewView("view", Some(p), Some(o.direction), Some(o.up_vector),
                         "v", DefaultSize, DefaultSize, None, None))

NextTransform == MoveCall \/ RotateCall

SpecTransform == InitTransform /\ [][NextTransform]_vars

----------------------------------------------------------------------------
(* The fields and their setters: C1, C2, C3.                               *)

\* the last call was view.type = value with a value ending in a fisheye code
FisheyeTypeSet ==
    /\ op.name = "type"
    /\ op.args[1] # None
    /\ LastChar(op.args[1][1]) \in FisheyeTypes

\* C1: setting type to a fisheye variant (h, a or s) succeeds and leaves the
\* view with that type and with h_size = 180 and v_size = 180, whatever the
\* sizes were before.
C1_FisheyeForces180 ==
    FisheyeTypeSet =>
        /\ err = "none"
        /\ view.type = LastChar(op.args[1][1])
        /\ view.h_size = 180
        /\ view.v_size = 180

\* C1 witness: a fisheye type was set on a view whose sizes were both
\* different from 180, and both are 180 now.
C1_Witness ==
    /\ FisheyeTypeSet
    /\ pre.h_size # 180
    /\ pre.v_size # 180
    /\ view.h_size = 180
    /\ view.v_size = 180

\* the last call set h_size or v_size of a perspective view to a number >= 180
PerspectiveSizeSetAbove ==
    /\ op.name \in {"h_size", "v_size"}
    /\ pre.type = "v"
    /\ op.args[1].k = "num"
    /\ op.args[1].n >= 180

\* C2: setting h_size or v_size of a perspective view to a value >= 180
\* fails, so that a perspective view keeps both sizes below 180.
C2_PerspectiveSizeRejected ==
    PerspectiveSizeSetAbove =>
        /\ err # "none"
        /\ view.h_size = pre.h_size
        /\ view.v_size = pre.v_size

\* C3: a setter that fails validation leaves the view as it was before the
\* call: type and sizes (and every other field) are unchanged.
C3_FailedSetterKeepsState == err # "none" => view = pre

----------------------------------------------------------------------------
(* The codec: C4, C10.                                                     *)

\* an unset clip and a zero clip are the same clip
ClipEq(a, b) == a = b \/ ({a, b} \subseteq {None, Some(0)})

\* field by field equality of two views, up to unset and zero clips
ViewEq(a, b) ==
    /\ a.name = b.name
    /\ a.position = b.position
    /\ a.direction = b.direction
    /\ a.up_vector = b.up_vector
    /\ a.type = b.type
    /\ a.h_size = b.h_size
    /\ a.v_size = b.v_size
    /\ a.shift = b.shift
    /\ a.lift = b.lift
    /\ ClipEq(a.fore_clip, b.fore_clip)
    /\ ClipEq(a.aft_clip, b.aft_clip)

\* C4: parsing the serialized text of a view yields a view equal to it field
\* by field, for every type, size, shift, lift and clip (an unset clip and a
\* zero clip being equal).
C4_RoundTrip == op.name = "from_string" => ViewEq(parsed[1], view)

\* the place of a flag in the documented order vt vp vd vu vh vv vs vl vo va
FlagRank(tok) ==
    LET n == OptName(tok)
    IN  CASE n = "vp" -> 2 [] n = "vd" -> 3 [] n = "vu" -> 4 [] n = "vh" -> 5
          [] n = "vv" -> 6 [] n = "vs" -> 7 [] n = "vl" -> 8 [] n = "vo" -> 9
          [] n = "va" -> 10 [] OTHER -> 1

\* the flags of a token sequence, in their order
FlagsOf(toks) == SelectSeq(toks, IsFlag)

\* the token sequence holds the flag
HasFlag(toks, flag) == \E i \in 1..Len(toks) : toks[i] = flag

\* C10: to_radiance emits the flags in the order vt, vp, vd, vu, vh, vv, vs,
\* vl, vo, va, each at most once; -vt, -vp, -vd, -vu, -vh and -vv are always
\* there, and -vs, -vl, -vo, -va are there exactly when shift, lift,
\* fore_clip, aft_clip are set.
C10_FlagOrderAndOmission ==
    op.name = "to_radiance" =>
        LET f == FlagsOf(text)
        IN  /\ \A i, j \in 1..Len(f) : i < j => FlagRank(f[i]) < FlagRank(f[j])
            /\ Len(f) >= 6
            /\ \A i \in 1..6 : FlagRank(f[i]) = i
            /\ f[1] = "-vt" \o view.type
            /\ HasFlag(text, "-vs") <=> view.shift # None
            /\ HasFlag(text, "-vl") <=> view.lift # None
            /\ HasFlag(text, "-vo") <=> view.fore_clip # None
            /\ HasFlag(text, "-va") <=> view.aft_clip # None

\* C10 witness: a view without shift and lift but with both clips was
\* serialized; its text has -vo and -va and neither -vs nor -vl.
C10_Witness ==
    /\ op.name = "to_radiance"
    /\ view.shift = None
    /\ view.lift = None
    /\ view.fore_clip # None
    /\ view.aft_clip # None
    /\ ~HasFlag(text, "-vs")
    /\ ~HasFlag(text, "-vl")
    /\ HasFlag(text, "-vo")
    /\ HasFlag(text, "-va")

----------------------------------------------------------------------------
(* Resolution fitting: C5.                                                 *)

\* the resolution an argument of dimension_x_y stands for
ResOf(arg) == IF arg = None THEN DefaultRes ELSE arg[1]

\* the last call was dimension_x_y and it returned
Fitted == op.name = "dimension_x_y" /\ err = "none"

\* C5: the (x, y) returned by dimension_x_y never exceeds the requested
\* resolutions: x <= h_res and y <= v_res, on every branch.
C5_FitWithinBounds ==
    Fitted =>
        /\ dims[1][1] <= ResOf(op.args[1])
        /\ dims[1][2] <= ResOf(op.args[2])

\* C5 witness: the second attempt was taken: with v_res <= h_res a
\* non-fisheye view got the full width and a height below v_res.
C5_Witness ==
    /\ Fitted
    /\ view.type \notin FisheyeTypes
    /\ ResOf(op.args[2]) <= ResOf(op.args[1])
    /\ dims[1][1] = ResOf(op.args[1])
    /\ dims[1][2] < ResOf(op.args[2])

----------------------------------------------------------------------------
(* The grid split: C6, C7.                                                 *)

\* the last call was grid and it returned new views
GridSplit == op.name = "grid" /\ err = "none" /\ ~views[1].self

\* C6: every sub-view returned by grid is a new view named "<name>_<i>"
\* (i from 0) whose position, direction and up_vector are the parent's.
C6_SubViewsKeepVectors ==
    GridSplit =>
        \A i \in 1..Len(views) :
            /\ ~views[i].self
            /\ views[i].view.name = view.name \o "_" \o ToString(i - 1)
            /\ views[i].view.position = view.position
            /\ views[i].view.direction = view.direction
            /\ views[i].view.up_vector = view.up_vector

\* the last call was grid with counts 1 or -1
GridOneByOne ==
    /\ op.name = "grid"
    /\ op.args[1].k = "num"
    /\ op.args[2].k = "num"
    /\ op.args[1].n \in {1, 0 - 1}
    /\ op.args[2].n \in {1, 0 - 1}

\* C7: grid(1, 1) returns a list whose only element is the view itself, its
\* fields unchanged, for every type.
C7_OneByOneIsSelf ==
    GridOneByOne =>
        /\ err = "none"
        /\ Len(views) = 1
        /\ views[1].self
        /\ views[1].view = pre
        /\ view = pre

\* C7 witness: grid(1, 1) on a perspective view away from the default
\* position returned the view itself.
C7_Witness ==
    /\ GridOneByOne
    /\ op.args[1].n = 1
    /\ op.args[2].n = 1
    /\ view.type = "v"
    /\ view.position # DefaultPosition
    /\ views = <<[self |-> TRUE, view |-> view]>>

----------------------------------------------------------------------------
(* The transforms: C8, C9.                                                 *)

\* the last call was rotate with the angle alone
RotateByAngleOnly == op.name = "rotate" /\ op.args[2] = None /\ op.args[3] = None

\* C8: rotate with only an angle completes without error, rotating about
\* the up_vector through the position: the position and the up_vector stay,
\* and with angle 0 the direction stays as well.
C8_RotateDefaults ==
    RotateByAngleOnly =>
        /\ err = "none"
        /\ view.position = pre.position
        /\ view.up_vector = pre.up_vector
        /\ op.args[1] = 0 => view.direction = pre.direction

\* C9: move sets the position to position + vector, coordinate by
\* coordinate, and leaves every other field of the view unchanged.
C9_MoveAddsVector ==
    op.name = "move" =>
        /\ err = "none"
        /\ \A i \in 1..3 : view.position[i] = pre.position[i] + op.args[1][i]
        /\ [view EXCEPT !.position = pre.position] = pre

\* C9 witness: a view away from the default orientation was moved by a
\* vector that is not zero.
C9_Witness ==
    /\ op.name = "move"
    /\ op.args[1] # <<0, 0, 0>>
    /\ view.position # pre.position
    /\ view.direction # DefaultDirection
    /\ view.direction = pre.direction

----------------------------------------------------------------------------
(* The view file: C11.                                                     *)

\* the name is a file name with the extension .vf
EndsInVf(name) == \E stem \in {"view", "shot"} : name = stem \o ".vf"

\* C11: to_file writes "rvu " followed by the view's serialization to
\* <folder>/<file_name or name>.vf: the file name ends in .vf when a file
\* name is given and when it defaults to the view's name.
C11_FileNameEndsInVf ==
    (op.name = "to_file" /\ err = "none") =>
        /\ written # None
        /\ written[1].content[1] = "rvu"
        /\ SubSeq(written[1].content, 2, Len(written[1].content)) = ToRadiance(view)
        /\ written[1].path[1] = op.args[1]
        /\ EndsInVf(written[1].path[2])
        /\ written[1].path[2] =
               (IF Truthy(op.args[2]) THEN op.args[2][1] ELSE view.name) \o ".vf"

----------------------------------------------------------------------------
(* The grid split: C12, C13, C14, C15.                                     *)

\* the counts of the last grid call, by absolute value
XCount == Abs(op.args[1].n)

YCount == Abs(op.args[2].n)

\* the (shift, lift) of the i-th view returned
Offsets(i) == <<views[i].view.shift, views[i].view.lift>>

\* the (shift, lift) of the cell in column col and row row
CellOffsets(col, row) ==
    <<Some(Half(2 * col - (XCount - 1))), Some(Half(2 * row - (YCount - 1)))>>

\* C12: cell i of grid(x_count, y_count) has shift = col - (x_count - 1) / 2
\* with col = i mod x_count and lift = row - (y_count - 1) / 2 with
\* row = i div x_count; the (shift, lift) pairs of the sub-views are pairwise
\* distinct and every cell of the grid is covered, for x_count # y_count too.
C12_ShiftLiftTile ==
    GridSplit =>
        /\ Len(views) = XCount * YCount
        /\ \A i \in 1..Len(views) :
               Offsets(i) = CellOffsets((i - 1) % XCount, (i - 1) \div XCount)
        /\ \A i, j \in 1..Len(views) : i # j => Offsets(i) # Offsets(j)
        /\ \A col \in 0..(XCount - 1), row \in 0..(YCount - 1) :
               \E i \in 1..Len(views) : Offsets(i) = CellOffsets(col, row)

\* C13: for a perspective view the sub-views have the horizontal size
\* (360/pi) * atan(tan(h_size * pi/360) / x_count) and the vertical size
\* (360/pi) * atan(tan(v_size * pi/360) / y_count), so that equal sizes and
\* equal counts give equal sub-view sizes.
C13_PerspectiveSizes ==
    (GridSplit /\ view.type = "v") =>
        \A i \in 1..Len(views) :
            /\ views[i].view.h_size = Deg(Atan(Div(Tan(HalfRad(view.h_size)), XCount)))
            /\ views[i].view.v_size = Deg(Atan(Div(Tan(HalfRad(view.v_size)), YCount)))
            /\ (view.h_size = view.v_size /\ XCount = YCount)
                   => views[i].view.h_size = views[i].view.v_size

\* both counts of the last grid call are numbers
NumericCounts == op.args[1].k = "num" /\ op.args[2].k = "num"

\* C14: grid takes both counts by absolute value; it fails, returning no
\* views and leaving the view unchanged, exactly when a count is not a number
\* or the product of the counts is 0; otherwise it returns the view itself
\* or |x_count| * |y_count| views.
C14_CountsValidated ==
    op.name = "grid" =>
        /\ view = pre
        /\ IF NumericCounts /\ XCount * YCount # 0
           THEN /\ err = "none"
                /\ Len(views) \in {1, XCount * YCount}
           ELSE /\ err # "none"
                /\ views = <<>>

\* C15: every sub-view returned by grid has the type of the parent view, and
\* grid leaves every field of the parent unchanged.
C15_SubViewsKeepType ==
    /\ op.name = "grid" => view = pre
    /\ GridSplit => \A i \in 1..Len(views) : views[i].view.type = view.type

====
